---- MODULE Spec2Model ----
(***************************************************************************)
(* Model of pyembree/mesh_construction.pyx: TriangleMesh and ElementMesh   *)
(* construction.  One behaviour is one constructor call.  The state is the *)
(* caller's arguments, the control position inside the constructor, the    *)
(* scene-side geometry (declared counts, the two buffers and their         *)
(* map/unmap state, the log of calls made to the engine) and the wrapper's *)
(* three fields.                                                           *)
(***************************************************************************)
EXTENDS Integers, Sequences, FiniteSets, TLC

\* ------------------------------------------------------------------ bounds
MaxTriangles == 2
MaxVertices == 8
MaxElements == 2
MaxGeoms == 1

\* ------------------------------------------------------ program constants
\* Width of `unsigned int` (Triangle.v0/v1/v2) and of the float significand
\* (Vertex.x/y/z are single precision).
UIntBits == 32
FloatMantissa == 24

RTC_VERTEX_BUFFER == "VERTEX"
RTC_INDEX_BUFFER == "INDEX"
BufferKinds == {RTC_VERTEX_BUFFER, RTC_INDEX_BUFFER}

\* --------------------------------------------------------------- arithmetic
RECURSIVE Pow2(_)
Pow2(n) == IF n = 0 THEN 1 ELSE 2 * Pow2(n - 1)

RECURSIVE UlpExp(_, _)
\* least k with m < 2^(FloatMantissa + k)
UlpExp(m, k) == IF m < Pow2(FloatMantissa + k) THEN k ELSE UlpExp(m, k + 1)

\* C conversion double -> float of an integral value: round to nearest, ties
\* to even, on a 24-bit significand.
RoundMagnitude(m) ==
    LET u == Pow2(UlpExp(m, 0))
        q == m \div u
        r == m % u
    IN  IF 2 * r < u THEN q * u
        ELSE IF 2 * r > u THEN (q + 1) * u
        ELSE IF q % 2 = 0 THEN q * u ELSE (q + 1) * u

ToFloat(x) == IF x < 0 THEN -RoundMagnitude(-x) ELSE RoundMagnitude(x)

\* Conversion of a Python integer to C `unsigned int`: OverflowError outside
\* 0 .. 2^32-1 (x < 2^32 written as x div 2^16 < 2^16).
UIntOk(x) ==
    x >= 0 /\ (x \div Pow2(UIntBits \div 2)) < Pow2(UIntBits - UIntBits \div 2)

\* ------------------------------------------------------------------- arrays
\* A dense row-major array: shape is the tuple of dimensions, data maps the
\* flat offset (0-based) to the element.
Size(shape) ==
    IF Len(shape) = 0 THEN 1
    ELSE IF Len(shape) = 1 THEN shape[1]
    ELSE IF Len(shape) = 2 THEN shape[1] * shape[2]
    ELSE shape[1] * shape[2] * shape[3]

Offset(shape, ix) ==
    IF Len(shape) = 1 THEN ix[1]
    ELSE IF Len(shape) = 2 THEN ix[1] * shape[2] + ix[2]
    ELSE (ix[1] * shape[2] + ix[2]) * shape[3] + ix[3]

\* a[ix] raises IndexError when ix has more entries than a has dimensions or
\* when an entry is outside its dimension.
InBounds(a, ix) ==
    /\ Len(ix) = Len(a.shape)
    /\ \A d \in 1..Len(ix) : ix[d] >= 0 /\ ix[d] < a.shape[d]

Item(a, ix) == a.data[Offset(a.shape, ix)]

\* ------------------------------------------------------------ input families
CoordVals == <<0, 1, -3, 16777217, 5, 33554434, -16777219>>
DimVals == {2, 3, 4}
ArityVals == {3, 4, 8}

CoordArray(shape, off, mul) ==
    [shape |-> shape,
     data |-> [p \in 0..(Size(shape) - 1) |->
                  CoordVals[((p * mul + off) % Len(CoordVals)) + 1]]]

IndexArray(shape, off, mul, md, lo) ==
    [shape |-> shape,
     data |-> [p \in 0..(Size(shape) - 1) |-> ((p * mul + off) % md) + lo]]

NoArray == [shape |-> <<>>, data |-> <<>>]

\* -------------------------------------------------------------------- state
VARIABLES
    args,       \* the constructor call: [cls, vertices, indices, indices_none]
    pc,         \* control position inside the constructor
    builder,    \* which _build_from_* method __init__ dispatched to
    i, j,       \* the loop variables of the running fill loop
    t,          \* position inside the unrolled body of the index loop
    nt, nv,     \* the method's locals nt and nv
    mesh,       \* the method's local `mesh` (the handle rtcNewTriangleMesh gave)
    scene,      \* scene side: [next, geoms, mapped, buf, writes, log]
    self,       \* the wrapper's fields: [vertices, indices, mesh]
    exc,        \* the exception raised so far ("none" when none)
    result      \* "running", "returned" (normal return) or "raised"

vars == <<args, pc, builder, i, j, t, nt, nv, mesh, scene, self, exc, result>>

NULL == "NULL"

\* The fields `cdef Vertex* vertices`, `cdef Triangle* indices` and
\* `cdef unsigned int mesh` of a freshly allocated wrapper are zeroed.
NewWrapper == [vertices |-> NULL, indices |-> NULL, mesh |-> 0]

EmptyBuffers == [k \in BufferKinds |-> <<>>]

NewScene(n) ==
    [next |-> n,
     geoms |-> {},
     mapped |-> [k \in BufferKinds |-> FALSE],
     buf |-> EmptyBuffers,
     writes |-> EmptyBuffers,
     log |-> <<>>]

Event(op, kind, slot) == [op |-> op, kind |-> kind, slot |-> slot]

\* -------------------------------------------------------- the caller's inputs
\* TriangleMesh(scene, vertices): vertices of rank 3 (or, malformed, rank 2).
FlatArgs ==
    { [cls |-> "TriangleMesh", indices_none |-> TRUE, indices |-> NoArray,
       vertices |-> CoordArray(sh, off, mul)] :
        sh \in ({<<n, a, b>> : n \in 0..MaxTriangles, a \in DimVals, b \in DimVals}
                \cup {<<n, a>> : n \in 0..MaxTriangles, a \in DimVals}),
        off \in {0, 1}, mul \in {1, 2} }

VertexPools ==
    { CoordArray(sh, off, 1) :
        sh \in ({<<n, a>> : n \in 0..MaxVertices, a \in DimVals}
                \cup {<<n>> : n \in 1..2}),
        off \in {0, 3} }

IndexArrays(rows, widths) ==
    { IndexArray(<<n, w>>, off, mul, md, lo) :
        n \in rows, w \in widths, off \in {0, 1}, mul \in {1, 3},
        md \in {1, 3, MaxVertices, MaxVertices + 1}, lo \in {-1, 0} }

\* TriangleMesh(scene, vertices, indices)
IndexedArgs ==
    { [cls |-> "TriangleMesh", indices_none |-> FALSE, indices |-> ia,
       vertices |-> va] :
        va \in VertexPools, ia \in IndexArrays(0..MaxTriangles, DimVals) }

\* ElementMesh(scene, vertices, indices)
ElementArgs ==
    { [cls |-> "ElementMesh", indices_none |-> FALSE, indices |-> ia,
       vertices |-> va] :
        va \in VertexPools, ia \in IndexArrays(0..MaxElements, ArityVals) }

Init ==
    /\ args \in FlatArgs \cup IndexedArgs \cup ElementArgs
    /\ pc = "init"
    /\ builder = "none"
    /\ i = 0 /\ j = 0 /\ t = 0 /\ nt = 0 /\ nv = 0 /\ mesh = 0
    /\ \E n \in 0..MaxGeoms : scene = NewScene(n)
    /\ self = NewWrapper
    /\ exc = "none"
    /\ result = "running"

\* ------------------------------------------------------- the lowering tables
\* HexTable with the second triangle of face 0 1 5 4 wound the other way.
HexTableMutant ==
    << <<0, 1, 2>>, <<0, 2, 3>>,
       <<4, 5, 6>>, <<4, 6, 7>>,
       <<0, 1, 5>>, <<0, 4, 5>>,
       <<1, 2, 6>>, <<1, 6, 5>>,
       <<0, 3, 7>>, <<0, 7, 4>>,
       <<3, 2, 6>>, <<3, 6, 7>> >>

\* ElementMesh._build_from_quads: the local nodes of the 12 triangles written
\* at triangles[j] .. triangles[j+11], j = 12*i.
HexTable ==
    << <<0, 1, 2>>, <<0, 2, 3>>,
       <<4, 5, 6>>, <<4, 6, 7>>,
       <<0, 1, 5>>, <<0, 5, 4>>,
       <<1, 2, 6>>, <<1, 6, 5>>,
       <<0, 3, 7>>, <<0, 7, 4>>,
       <<3, 2, 6>>, <<3, 6, 7>> >>

\* TetTable with the second face repeating the first.
TetTableMutant ==
    << <<0, 1, 2>>, <<0, 1, 2>>, <<0, 2, 3>>, <<1, 2, 3>> >>

\* ElementMesh._build_from_triangles: triangles[j] .. triangles[j+3], j = 4*i.
TetTable ==
    << <<0, 1, 2>>, <<0, 1, 3>>, <<0, 2, 3>>, <<1, 2, 3>> >>

\* RowTable with v1 and v2 exchanged.
RowTableMutant == << <<0, 2, 1>> >>

\* TriangleMesh._build_from_indices: triangles[i] = tri_indices[i][0..2].
RowTable == << <<0, 1, 2>> >>

\* ------------------------------------------------ per-method sizes and slots
\* (nt, nv) as each method computes them before rtcNewTriangleMesh.
build_from_flat_counts(a) ==
    [nt |-> a.vertices.shape[1], nv |-> a.vertices.shape[1] * 3]

build_from_indices_counts(a) ==
    [nt |-> a.indices.shape[1], nv |-> a.vertices.shape[1]]

build_from_quads_counts(a) ==
    [nt |-> 6 * 2 * a.indices.shape[1], nv |-> a.vertices.shape[1]]

build_from_triangles_counts(a) ==
    [nt |-> 4 * a.indices.shape[1], nv |-> a.vertices.shape[1]]

Counts(b, a) ==
    CASE b = "flat" -> build_from_flat_counts(a)
      [] b = "indices" -> build_from_indices_counts(a)
      [] b = "quads" -> build_from_quads_counts(a)
      [] b = "triangles" -> build_from_triangles_counts(a)

\* The vertex fill loop.  flat: for i in range(nt): for j in range(3), slot
\* i*3 + j read from tri_vertices[i, j, c]; the others: for i in range(nv),
\* slot i read from vertices[i, c].
\* FlatVertexSlot with the corners of a triangle stored in reverse.
FlatVertexSlotMutant(ii, jj) == ii * 3 + (2 - jj)

FlatVertexSlot(ii, jj) == ii * 3 + jj

FlatVertexSource(ii, jj, c) == <<ii, jj, c>>

PoolVertexSlot(ii) == ii

PoolVertexSource(ii, c) == <<ii, c>>

VertexSlot(b, ii, jj) ==
    IF b = "flat" THEN FlatVertexSlot(ii, jj) ELSE PoolVertexSlot(ii)

VertexSource(b, ii, jj, c) ==
    IF b = "flat" THEN FlatVertexSource(ii, jj, c) ELSE PoolVertexSource(ii, c)

\* Number of outer iterations of the vertex loop, and of inner ones.
VertexOuter(b) == IF b = "flat" THEN nt ELSE nv

VertexInner(b) == IF b = "flat" THEN 3 ELSE 1

\* The index fill loop: for i in range(nt) (flat, indices) or range(ne)
\* (quads, triangles); each iteration writes TrianglesPerIter triangles.
TriangleTable(b) ==
    CASE b = "quads" -> HexTable
      [] b = "triangles" -> TetTable
      [] OTHER -> RowTable

TrianglesPerIter(b) == Len(TriangleTable(b))

TriangleOuter(b, a) ==
    IF b = "flat" THEN nt ELSE a.indices.shape[1]

FlatTriangleSlot(ii) == ii

\* FlatTriangle off by one.
FlatTriangleMutant(ii) == <<ii * 3 + 1, ii * 3 + 2, ii * 3 + 3>>

FlatTriangle(ii) == <<ii * 3 + 0, ii * 3 + 1, ii * 3 + 2>>

IndicesTriangleSlot(ii) == ii

\* QuadsTriangleSlot with a stride of 11.
QuadsTriangleSlotMutant(ii, tt) == 11 * ii + tt

QuadsTriangleSlot(ii, tt) == 12 * ii + tt

TetraTriangleSlot(ii, tt) == 4 * ii + tt

TriangleSlot(b, ii, tt) ==
    CASE b = "flat" -> FlatTriangleSlot(ii)
      [] b = "indices" -> IndicesTriangleSlot(ii)
      [] b = "quads" -> QuadsTriangleSlot(ii, tt)
      [] b = "triangles" -> TetraTriangleSlot(ii, tt)

\* ---------------------------------------------------- reads and conversions
Ok(v) == [ok |-> TRUE, val |-> v, exc |-> "none"]

Raise(e) == [ok |-> FALSE, val |-> 0, exc |-> e]

\* <float> vertices[ix]
ReadCoord(a, ix) ==
    IF InBounds(a, ix) THEN Ok(ToFloat(Item(a, ix))) ELSE Raise("IndexError")

\* <unsigned int> indices[ii][c]
ReadIndex(a, ii, c) ==
    IF ~InBounds(a, <<ii, c>>) THEN Raise("IndexError")
    ELSE IF ~UIntOk(Item(a, <<ii, c>>)) THEN Raise("OverflowError")
    ELSE Ok(Item(a, <<ii, c>>))

\* The three right-hand sides of one slot's assignments, in program order.
VertexReads(b, a, ii, jj) ==
    [c \in 1..3 |-> ReadCoord(a.vertices, VertexSource(b, ii, jj, c - 1))]

TriangleReads(b, a, ii, tt) ==
    IF b = "flat" THEN [c \in 1..3 |-> Ok(FlatTriangle(ii)[c])]
    ELSE [c \in 1..3 |-> ReadIndex(a.indices, ii, TriangleTable(b)[tt + 1][c])]

\* Number of assignments executed before the first right-hand side raises.
Done(reads) ==
    IF ~reads[1].ok THEN 0
    ELSE IF ~reads[2].ok THEN 1
    ELSE IF ~reads[3].ok THEN 2
    ELSE 3

Failure(reads) == IF Done(reads) = 3 THEN "none" ELSE reads[Done(reads) + 1].exc

\* ------------------------------------------------------------ scene engine
\* rtcNewTriangleMesh(scene, RTC_GEOMETRY_STATIC, numTriangles, numVertices, 1)
rtcNewTriangleMesh(sc, numTriangles, numVertices) ==
    [sc EXCEPT
        !.next = @ + 1,
        !.geoms = @ \cup {[id |-> sc.next, numTriangles |-> numTriangles,
                           numVertices |-> numVertices]},
        !.buf = [k \in BufferKinds |->
                    IF k = RTC_VERTEX_BUFFER
                    THEN [s \in 0..(numVertices - 1) |-> <<>>]
                    ELSE [s \in 0..(numTriangles - 1) |-> <<>>]],
        !.writes = [k \in BufferKinds |->
                    IF k = RTC_VERTEX_BUFFER
                    THEN [s \in 0..(numVertices - 1) |-> 0]
                    ELSE [s \in 0..(numTriangles - 1) |-> 0]],
        !.log = Append(@, Event("new", "GEOMETRY", sc.next))]

rtcMapBuffer(sc, kind) ==
    [sc EXCEPT !.mapped[kind] = TRUE,
               !.log = Append(@, Event("map", kind, 0))]

rtcUnmapBuffer(sc, kind) ==
    [sc EXCEPT !.mapped[kind] = FALSE,
               !.log = Append(@, Event("unmap", kind, 0))]

\* The fields of a slot after `n` of the three assignments have run.
Merge(old, reads, n) ==
    [c \in 1..(IF Len(old) > n THEN Len(old) ELSE n) |->
        IF c <= n THEN reads[c].val ELSE old[c]]

\* buffer[slot].{x,y,z} = ... or buffer[slot].{v0,v1,v2} = ..., up to the first
\* right-hand side that raises.  A slot outside the allocation is recorded in
\* writes and log only.
Store(sc, kind, slot, reads) ==
    IF Done(reads) = 0 THEN sc
    ELSE [sc EXCEPT
            !.buf[kind] =
                IF slot \in DOMAIN @
                THEN [@ EXCEPT ![slot] = Merge(@, reads, Done(reads))]
                ELSE @,
            !.writes[kind] =
                IF slot \in DOMAIN @
                THEN [@ EXCEPT ![slot] = @ + 1]
                ELSE @ @@ (slot :> 1),
            !.log = Append(@, Event("write", kind, slot))]

\* ------------------------------------------------------------------ actions
\* TriangleMesh.__init__
TriangleMesh_init ==
    /\ pc = "init"
    /\ args.cls = "TriangleMesh"
    /\ builder' = IF args.indices_none THEN "flat" ELSE "indices"
    /\ pc' = "new"
    /\ UNCHANGED <<args, i, j, t, nt, nv, mesh, scene, self, exc, result>>

\* ElementMesh.__init__ with the tetrahedron path as the default branch.
ElementMesh_initMutant ==
    /\ pc = "init"
    /\ args.cls = "ElementMesh"
    /\ builder' = IF args.indices.shape[2] = 8 THEN "quads" ELSE "triangles"
    /\ pc' = "new"
    /\ UNCHANGED <<args, i, j, t, nt, nv, mesh, scene, self, exc, result>>

\* ElementMesh.__init__
ElementMesh_init ==
    /\ pc = "init"
    /\ args.cls = "ElementMesh"
    /\ IF args.indices.shape[2] = 8
       THEN builder' = "quads" /\ pc' = "new" /\ UNCHANGED <<exc, result>>
       ELSE IF args.indices.shape[2] = 4
       THEN builder' = "triangles" /\ pc' = "new" /\ UNCHANGED <<exc, result>>
       ELSE /\ exc' = "NotImplementedError"
            /\ result' = "raised"
            /\ pc' = "done"
            /\ UNCHANGED builder
    /\ UNCHANGED <<args, i, j, t, nt, nv, mesh, scene, self>>

\* cdef int nt = ..., nv = ...; mesh = rtcNewTriangleMesh(...)
NewTriangleMesh ==
    /\ pc = "new"
    /\ nt' = Counts(builder, args).nt
    /\ nv' = Counts(builder, args).nv
    /\ mesh' = scene.next
    /\ scene' = rtcNewTriangleMesh(scene, nt', nv')
    /\ pc' = "map_vertex"
    /\ UNCHANGED <<args, builder, i, j, t, self, exc, result>>

\* vertices = rtcMapBuffer(.., RTC_VERTEX_BUFFER) and
\* triangles = rtcMapBuffer(.., RTC_INDEX_BUFFER)
MapBuffer ==
    /\ pc \in {"map_vertex", "map_index"}
    /\ scene' = rtcMapBuffer(scene, IF pc = "map_vertex" THEN RTC_VERTEX_BUFFER
                                    ELSE RTC_INDEX_BUFFER)
    /\ pc' = IF pc = "map_vertex" THEN "fill_vertex" ELSE "fill_index"
    /\ i' = 0 /\ j' = 0 /\ t' = 0
    /\ UNCHANGED <<args, builder, nt, nv, mesh, self, exc, result>>

\* An exception inside a `cdef void` method leaves the method at once.  The
\* method declares no exception value: depending on the Cython build the
\* exception is propagated to the caller of __init__, or written out as
\* unraisable and __init__ returns normally.
Abort(e) ==
    /\ exc' = e
    /\ pc' = "done"
    /\ result' \in {"raised", "returned"}

\* One pass of the body of the vertex loop.
WriteVertex ==
    /\ pc = "fill_vertex"
    /\ i < VertexOuter(builder)
    /\ LET reads == VertexReads(builder, args, i, j)
       IN  /\ scene' = Store(scene, RTC_VERTEX_BUFFER,
                             VertexSlot(builder, i, j), reads)
           /\ IF Failure(reads) = "none"
              THEN /\ IF j + 1 < VertexInner(builder)
                      THEN i' = i /\ j' = j + 1
                      ELSE i' = i + 1 /\ j' = 0
                   /\ UNCHANGED <<pc, exc, result>>
              ELSE /\ Abort(Failure(reads))
                   /\ UNCHANGED <<i, j>>
    /\ UNCHANGED <<args, builder, t, nt, nv, mesh, self>>

\* One triangle of the body of the index loop.
WriteTriangle ==
    /\ pc = "fill_index"
    /\ i < TriangleOuter(builder, args)
    /\ LET reads == TriangleReads(builder, args, i, t)
       IN  /\ scene' = Store(scene, RTC_INDEX_BUFFER,
                             TriangleSlot(builder, i, t), reads)
           /\ IF Failure(reads) = "none"
              THEN /\ IF t + 1 < TrianglesPerIter(builder)
                      THEN i' = i /\ t' = t + 1
                      ELSE i' = i + 1 /\ t' = 0
                   /\ UNCHANGED <<pc, exc, result>>
              ELSE /\ Abort(Failure(reads))
                   /\ UNCHANGED <<i, t>>
    /\ UNCHANGED <<args, builder, j, nt, nv, mesh, self>>

\* UnmapBuffer with the index loop followed by an unmap of the vertex buffer.
UnmapBufferMutant ==
    /\ \/ /\ pc = "fill_vertex"
          /\ i >= VertexOuter(builder)
          /\ scene' = rtcUnmapBuffer(scene, RTC_VERTEX_BUFFER)
          /\ pc' = "map_index"
       \/ /\ pc = "fill_index"
          /\ i >= TriangleOuter(builder, args)
          /\ scene' = rtcUnmapBuffer(scene, RTC_VERTEX_BUFFER)
          /\ pc' = "assign"
    /\ UNCHANGED <<args, builder, i, j, t, nt, nv, mesh, self, exc, result>>

\* rtcUnmapBuffer after the loop has run to its end.
UnmapBuffer ==
    /\ \/ /\ pc = "fill_vertex"
          /\ i >= VertexOuter(builder)
          /\ scene' = rtcUnmapBuffer(scene, RTC_VERTEX_BUFFER)
          /\ pc' = "map_index"
       \/ /\ pc = "fill_index"
          /\ i >= TriangleOuter(builder, args)
          /\ scene' = rtcUnmapBuffer(scene, RTC_INDEX_BUFFER)
          /\ pc' = "assign"
    /\ UNCHANGED <<args, builder, i, j, t, nt, nv, mesh, self, exc, result>>

\* self.vertices = vertices; self.indices = triangles; self.mesh = mesh
SetFields ==
    /\ pc = "assign"
    /\ self' = [vertices |-> RTC_VERTEX_BUFFER, indices |-> RTC_INDEX_BUFFER,
                mesh |-> mesh]
    /\ pc' = "done"
    /\ result' = "returned"
    /\ UNCHANGED <<args, builder, i, j, t, nt, nv, mesh, scene, exc>>

Next ==
    \/ TriangleMesh_init
    \/ ElementMesh_init
    \/ NewTriangleMesh
    \/ MapBuffer
    \/ WriteVertex
    \/ WriteTriangle
    \/ UnmapBuffer
    \/ SetFields

Spec == Init /\ [][Next]_vars

\* ------------------------------------------------------- observed quantities
VBuf == scene.buf[RTC_VERTEX_BUFFER]

TBuf == scene.buf[RTC_INDEX_BUFFER]

Returned == pc = "done"

Succeeded == pc = "done" /\ exc = "none"

Allocated == pc \notin {"init", "new"} /\ builder /= "none"

NumRows(a) == a.shape[1]

\* Positions of the log holding the given call.
Calls(op, kind) ==
    {p \in DOMAIN scene.log : scene.log[p].op = op /\ scene.log[p].kind = kind}

Released(kind) == Calls("unmap", kind) /= {}

\* The one geometry this construction declared: (numTriangles, numVertices).
DeclaredExactly(ntris, nverts) ==
    /\ scene.geoms = {[id |-> mesh, numTriangles |-> ntris,
                       numVertices |-> nverts]}
    /\ DOMAIN TBuf = 0..(ntris - 1)
    /\ DOMAIN VBuf = 0..(nverts - 1)

\* Row ii of the input index array, local node c (0-based).
Idx(ii, c) == Item(args.indices, <<ii, c>>)

\* The single-precision image of an input vertex array entry.
Coord(ix) == ToFloat(Item(args.vertices, ix))

\* ------------------------------------------------------------------ C1
ClaimHexTable ==
    << <<0, 1, 2>>, <<0, 2, 3>>, <<4, 5, 6>>, <<4, 6, 7>>,
       <<0, 1, 5>>, <<0, 5, 4>>, <<1, 2, 6>>, <<1, 6, 5>>,
       <<0, 3, 7>>, <<0, 7, 4>>, <<3, 2, 6>>, <<3, 6, 7>> >>

\* C1: a hexahedral construction declares 12*E triangles and numVertices
\* vertices, and once it has succeeded index-buffer slot 12*e + k holds
\* (idx[e][a], idx[e][b], idx[e][c]) for (a, b, c) the k-th entry of the fixed
\* table, in that order; no slot ever holds a complete triangle other than that.
Thm_C1_HexLowering ==
    (builder = "quads" /\ Allocated) =>
        LET E == NumRows(args.indices)
            Want(e, k) == << Idx(e, ClaimHexTable[k + 1][1]),
                             Idx(e, ClaimHexTable[k + 1][2]),
                             Idx(e, ClaimHexTable[k + 1][3]) >>
        IN  /\ DeclaredExactly(12 * E, NumRows(args.vertices))
            /\ \A e \in 0..(E - 1) : \A k \in 0..11 :
                  /\ Len(TBuf[12 * e + k]) = 3 => TBuf[12 * e + k] = Want(e, k)
                  /\ Succeeded => TBuf[12 * e + k] = Want(e, k)

Wit_C1_HexLowering ==
    /\ Succeeded
    /\ builder = "quads"
    /\ NumRows(args.indices) = 2
    /\ Cardinality({Idx(0, c) : c \in 0..7}) = 8
    /\ NumRows(args.vertices) = 8

\* ------------------------------------------------------------------ C2
ClaimTetTable ==
    << <<0, 1, 2>>, <<0, 1, 3>>, <<0, 2, 3>>, <<1, 2, 3>> >>

\* C2: a tetrahedral construction declares 4*E triangles and numVertices
\* vertices, and once it has succeeded index-buffer slot 4*e + k holds
\* (idx[e][a], idx[e][b], idx[e][c]) for (a, b, c) the k-th entry of
\* (0,1,2),(0,1,3),(0,2,3),(1,2,3).
Thm_C2_TetLowering ==
    (builder = "triangles" /\ Allocated) =>
        LET E == NumRows(args.indices)
            Want(e, k) == << Idx(e, ClaimTetTable[k + 1][1]),
                             Idx(e, ClaimTetTable[k + 1][2]),
                             Idx(e, ClaimTetTable[k + 1][3]) >>
        IN  /\ DeclaredExactly(4 * E, NumRows(args.vertices))
            /\ \A e \in 0..(E - 1) : \A k \in 0..3 :
                  /\ Len(TBuf[4 * e + k]) = 3 => TBuf[4 * e + k] = Want(e, k)
                  /\ Succeeded => TBuf[4 * e + k] = Want(e, k)

Wit_C2_TetLowering ==
    /\ Succeeded
    /\ builder = "triangles"
    /\ NumRows(args.indices) = 2
    /\ Cardinality({Idx(0, c) : c \in 0..3}) = 4
    /\ NumRows(args.vertices) >= 4

\* ------------------------------------------------------------------ C3
\* C3: a flat construction of N triangles declares N triangles and 3*N
\* vertices; once it has succeeded vertex slot 3*i + j holds the (single
\* precision) coordinates of input corner (i, j) and index entry i is
\* (3*i, 3*i+1, 3*i+2).
Thm_C3_FlatLowering ==
    (builder = "flat" /\ Allocated) =>
        LET N == NumRows(args.vertices)
        IN  /\ DeclaredExactly(N, 3 * N)
            /\ Succeeded =>
                \A n \in 0..(N - 1) :
                    /\ TBuf[n] = <<3 * n, 3 * n + 1, 3 * n + 2>>
                    /\ \A c \in 0..2 :
                         VBuf[3 * n + c] = << Coord(<<n, c, 0>>),
                                              Coord(<<n, c, 1>>),
                                              Coord(<<n, c, 2>>) >>

Wit_C3_FlatLowering ==
    /\ Succeeded
    /\ builder = "flat"
    /\ args.vertices.shape = <<2, 3, 3>>
    /\ VBuf[4] /= VBuf[3]
    /\ \E s \in DOMAIN VBuf : \E c \in 1..3 : VBuf[s][c] = 16777216

\* ------------------------------------------------------------------ C4
\* C4: an indexed construction declares numTriangles triangles and
\* numVertices vertices; once it has succeeded the vertex buffer holds the
\* input vertex array slot for slot (in single precision) and the index
\* buffer holds the input index rows, each with its three indices in order.
Thm_C4_IndexedCopy ==
    (builder = "indices" /\ Allocated) =>
        LET T == NumRows(args.indices)
            V == NumRows(args.vertices)
        IN  /\ DeclaredExactly(T, V)
            /\ Succeeded =>
                /\ \A s \in 0..(V - 1) :
                      VBuf[s] = <<Coord(<<s, 0>>), Coord(<<s, 1>>), Coord(<<s, 2>>)>>
                /\ \A n \in 0..(T - 1) :
                      TBuf[n] = <<Idx(n, 0), Idx(n, 1), Idx(n, 2)>>

Wit_C4_IndexedCopy ==
    /\ Succeeded
    /\ builder = "indices"
    /\ args.vertices.shape = <<4, 3>>
    /\ args.indices.shape = <<2, 3>>
    /\ Cardinality({Idx(0, c) : c \in 0..2}) = 3
    /\ TBuf[0] /= TBuf[1]

\* ------------------------------------------------------------------ C5
UnsupportedArity ==
    args.cls = "ElementMesh" /\ args.indices.shape[2] \notin {4, 8}

\* C5: an ElementMesh construction whose index array has a per-element width
\* other than 4 or 8 ends with NotImplementedError raised to the caller, never
\* calls the scene (no geometry, no map, no unmap, no write) and leaves the
\* wrapper's three fields as they were created.
Thm_C5_UnsupportedArity ==
    UnsupportedArity =>
        /\ pc \in {"init", "done"}
        /\ scene.geoms = {}
        /\ scene.log = <<>>
        /\ scene.buf = EmptyBuffers
        /\ \A kind \in BufferKinds : ~scene.mapped[kind]
        /\ self = NewWrapper
        /\ Returned => (exc = "NotImplementedError" /\ result = "raised")

Wit_C5_UnsupportedArity ==
    /\ UnsupportedArity
    /\ Returned
    /\ exc = "NotImplementedError"
    /\ args.indices.shape = <<2, 3>>
    /\ args.vertices.shape = <<4, 3>>

\* ------------------------------------------------------------------ C6
\* C6: in a construction that succeeded, each buffer kind was mapped exactly
\* once and unmapped exactly once, and every write to it lies after its map
\* and before its unmap; and in any state, no write to a buffer follows an
\* unmap of it or precedes its map.
Thm_C6_BufferProtocol ==
    \A kind \in BufferKinds :
        /\ \A w \in Calls("write", kind) :
              /\ \E m \in Calls("map", kind) : m < w
              /\ \A u \in Calls("unmap", kind) : w < u
        /\ Succeeded =>
              /\ Cardinality(Calls("map", kind)) = 1
              /\ Cardinality(Calls("unmap", kind)) = 1
              /\ \A m \in Calls("map", kind) :
                    \A u \in Calls("unmap", kind) : m < u

Wit_C6_BufferProtocol ==
    /\ Succeeded
    /\ builder = "triangles"
    /\ Cardinality(Calls("write", RTC_VERTEX_BUFFER)) = 4
    /\ Cardinality(Calls("write", RTC_INDEX_BUFFER)) = 8

\* ------------------------------------------------------------------ C7
\* C7: when construction returns, by success or by failure, no buffer is
\* still mapped for writing.
Claim_C7_NoBufferLeftMapped ==
    Returned => \A kind \in BufferKinds : ~scene.mapped[kind]

\* ------------------------------------------------------------------ C8
\* The documented shapes: flat (N,3,3); indexed (V,3) and (T,3); element
\* (V,3) and (E,4) or (E,8).
ShapeMismatch ==
    IF args.indices_none
    THEN ~(Len(args.vertices.shape) = 3 /\ args.vertices.shape[2] = 3
           /\ args.vertices.shape[3] = 3)
    ELSE \/ ~(Len(args.vertices.shape) = 2 /\ args.vertices.shape[2] = 3)
         \/ IF args.cls = "ElementMesh"
            THEN args.indices.shape[2] \notin {4, 8}
            ELSE args.indices.shape[2] /= 3

\* C8: a construction given an array whose shape does not match its path's
\* contract ends with an error raised, and no geometry has been allocated and
\* no call made to the scene.
Claim_C8_ShapeErrorBeforeAllocation ==
    (Returned /\ ShapeMismatch) =>
        (exc /= "none" /\ result = "raised"
         /\ scene.geoms = {} /\ scene.log = <<>>)

\* ------------------------------------------------------------------ C9
\* The counts declared at allocation, as the scene recorded them.
DeclaredCount(kind) ==
    IF scene.geoms = {} THEN 0
    ELSE LET g == CHOOSE x \in scene.geoms : TRUE
         IN  IF kind = RTC_VERTEX_BUFFER THEN g.numVertices ELSE g.numTriangles

\* C9: no write ever targets a slot at or beyond the declared count, no slot
\* is written twice, and when a buffer is unmapped every slot below its
\* declared count has been written exactly once, all three fields.
Thm_C9_EverySlotOnce ==
    \A kind \in BufferKinds :
        /\ \A w \in Calls("write", kind) :
              scene.log[w].slot >= 0 /\ scene.log[w].slot < DeclaredCount(kind)
        /\ \A s \in DOMAIN scene.writes[kind] : scene.writes[kind][s] <= 1
        /\ \A s \in DOMAIN scene.writes[kind] :
              scene.writes[kind][s] =
                  Cardinality({w \in Calls("write", kind) : scene.log[w].slot = s})
        /\ Released(kind) =>
              \A s \in 0..(DeclaredCount(kind) - 1) :
                  /\ scene.writes[kind][s] = 1
                  /\ Len(scene.buf[kind][s]) = 3

Wit_C9_EverySlotOnce ==
    /\ Released(RTC_INDEX_BUFFER)
    /\ builder = "quads"
    /\ DeclaredCount(RTC_INDEX_BUFFER) = 24
    /\ DeclaredCount(RTC_VERTEX_BUFFER) = 8

\* ------------------------------------------------------------------ C10
InputIndicesInRange ==
    \A p \in DOMAIN args.indices.data :
        args.indices.data[p] < NumRows(args.vertices)

\* Index-buffer slots per input row, by the input's arity.
ClaimFanout ==
    CASE builder = "quads" -> 12
      [] builder = "triangles" -> 4
      [] OTHER -> 1

\* C10: once the index buffer is finalized, every index stored in it is below
\* the declared vertex count, always for flat construction and for the other
\* paths when every input index is below numVertices; and on those paths a
\* stored index is always a value of the input row of the slot's element.
Thm_C10_IndicesInRange ==
    Released(RTC_INDEX_BUFFER) =>
        /\ (builder = "flat" \/ InputIndicesInRange) =>
              \A s \in DOMAIN TBuf : \A c \in 1..3 :
                  TBuf[s][c] >= 0 /\ TBuf[s][c] < DeclaredCount(RTC_VERTEX_BUFFER)
        /\ builder /= "flat" =>
              \A s \in DOMAIN TBuf : \A c \in 1..3 :
                  \E col \in 0..(args.indices.shape[2] - 1) :
                      TBuf[s][c] = Idx(s \div ClaimFanout, col)

Wit_C10_IndicesInRange ==
    /\ Released(RTC_INDEX_BUFFER)
    /\ builder = "quads"
    /\ InputIndicesInRange
    /\ NumRows(args.indices) = 2
    /\ \E s \in DOMAIN TBuf : TBuf[s][3] = 7

====
